---- MODULE Spec2Model ----
(***************************************************************************)
(* The confetti particle engine of src/index.js: the Confetti particle     *)
(* (constructor, draw, updatePosition, isVisible) and the ConfettiManager  *)
(* (constructor, resizeCanvas, addConfetti, resetAndStart, loop), together *)
(* with the browser facilities they use (Date.now, Math.random, the        *)
(* window's size, requestAnimationFrame, the debounce timer, image load).  *)
(*                                                                         *)
(* Numbers.  JavaScript numbers are modelled in fixed point:               *)
(*   time                     milliseconds (Date.now() is an integer)      *)
(*   position                 1/1000 px                                    *)
(*   speed, rotationSpeed     1/1000000 px per ms                          *)
(*   finalSpeedX              1/1000000 px per ms                          *)
(*   dragCoefficient          1/1000000 px per ms per ms                   *)
(*   radius.y, initialRadius  1/1000000 px                                 *)
(*   absCos, absSin, scale    1/1000                                       *)
(*   devicePixelRatio         1/100                                        *)
(*   a Math.random() result   1/1000 (0 .. 999, never 1000)                *)
(***************************************************************************)
EXTENDS Integers, Sequences, FiniteSets, TLC

VARIABLES
    confetti,      \* ConfettiManager.confetti: the live collection
    lastUpdated,   \* ConfettiManager.lastUpdated
    canvas,        \* ConfettiManager.canvas: [width, height]
    context,       \* ConfettiManager.context: what is drawn on the canvas, in
                   \* the order it was drawn
    window,        \* window: [innerWidth, innerHeight, devicePixelRatio]
    now,           \* what Date.now() returns
    rafPending,    \* the number of loop() callbacks requestAnimationFrame holds
    timeout,       \* the debounce closure: [handle, timers], the timer its
                   \* variable timeout names (a set of at most one) and the
                   \* timers it has set that are pending
    nextId,        \* object identity: the number of Confetti objects constructed
    images,        \* the Image objects whose load is pending, each named by
                   \* the id of the particle that made it
    last           \* history: the last operation, and the count it was given
                   \* (a burst), the number of particles it removed (a frame)
                   \* or the time it happened (a resize event)

vars == <<confetti, lastUpdated, canvas, context, window, now, rafPending,
          timeout, nextId, images, last>>

---------------------------------------------------------------------------
(* Bounds of the model *)

MaxTime == 3000
MaxIds == 4
MaxCount == 2
FrameMaxTime == 300
FallHorizon == 3000
GlyphMaxTime == 200
GlyphMaxIds == 2
ResizeMaxTime == 400
DebounceMaxTime == 1000
DefaultsMaxIds == 100

(* The elapsed times between two events the model considers: a long frame,  *)
(* and a tab that was in the background.                                    *)
DeltaTimes == {1500, 3000}

(* The same for the frame-by-frame specification: short frames. *)
FrameTimes == {50, 150}

(* The same for the resize specification: less than the delay of the        *)
(* debounced listener.                                                      *)
ResizeTimes == {100}

(* The results of the Math.random() calls of one Confetti construction the  *)
(* model considers, each in 1/1000: all smallest, and all largest.           *)
RandomDraws ==
    { [speed |-> 0, finalSpeed |-> 0, rotation |-> 0, drag |-> 0, tilt |-> 0,
       spin |-> 0, angle |-> 0, offset |-> 0, item |-> 0],
      [speed |-> 999, finalSpeed |-> 999, rotation |-> 999, drag |-> 999,
       tilt |-> 999, spin |-> 999, angle |-> 999, offset |-> 999, item |-> 999] }

(* The windows the model considers: the one the page opens in, and the     *)
(* ones a resize may lead to.                                               *)
FirstViewport ==
    [innerWidth |-> 1920, innerHeight |-> 700, devicePixelRatio |-> 100]

Viewports ==
    { FirstViewport,
      [innerWidth |-> 960, innerHeight |-> 140, devicePixelRatio |-> 200] }

(* The same with a window of odd size on a display of ratio 1.5. *)
ResizeViewports ==
    Viewports \cup {[innerWidth |-> 961, innerHeight |-> 141, devicePixelRatio |-> 150]}

---------------------------------------------------------------------------
(* JavaScript values *)

Null == "null"
Undefined == "undefined"

(* floor(a * b / c) for c > 0, without leaving 32 bits *)
MulDiv(a, b, c) == (a \div c) * b + ((a % c) * b) \div c

Max(a, b) == IF a >= b THEN a ELSE b

Falsy(v) == v \in {Null, Undefined, ""}

---------------------------------------------------------------------------
(* Utils *)

(* Utils.getRandomInRange(min, max, precision) with min and max given in     *)
(* units of 10^-precision and r the Math.random() result:                    *)
(* floor((random * (max - min) + min) * 10^precision) / 10^precision.        *)
getRandomInRange(min, max, r) ==
    (r * (max - min) + 1000 * min) \div 1000

(* Utils.getRandomItem(array): array[floor(random * length)], undefined     *)
(* when there is no such element.                                           *)
getRandomItem(array, r) ==
    LET index == (r * Len(array)) \div 1000
    IN  IF index + 1 \in DOMAIN array THEN array[index + 1] ELSE Undefined

(* Utils.getScaleFactor(): log(innerWidth) / log(1920), in 1/1000. *)
getScaleFactor(innerWidth) ==
    CASE innerWidth = 1920 -> 1000
      [] innerWidth = 960 -> 908
      [] innerWidth = 961 -> 908

(* |cos| and |sin| of an angle in degrees (times DEG_TO_RAD), in 1/1000. *)
AbsCos(angle) ==
    LET a == IF angle < 0 THEN -angle ELSE angle
    IN  CASE a = 15 -> 966 [] a = 16 -> 961 [] a = 48 -> 669 [] a = 49 -> 656
          [] a = 81 -> 156 [] a = 82 -> 139

AbsSin(angle) ==
    LET a == IF angle < 0 THEN -angle ELSE angle
    IN  CASE a = 15 -> 259 [] a = 16 -> 276 [] a = 48 -> 743 [] a = 49 -> 755
          [] a = 81 -> 988 [] a = 82 -> 990

defaultConfettiConfig ==
    [confettiesNumber |-> 100,
     confettiRadius |-> 4,
     confettiColors |-> <<"#fcf403", "#62fc03", "#f4fc03", "#03e7fc",
                          "#03fca5", "#a503fc", "#fc03ad", "#fc03c2">>,
     emojies |-> <<>>,
     svgIcon |-> Null]

---------------------------------------------------------------------------
(* class Confetti *)

Truthy(v) == ~Falsy(v)

(* emojis.length || svgIcon *)
HasGlyph(emojis, svgIcon) == Len(emojis) > 0 \/ Truthy(svgIcon)

(* new Confetti({initialPosition, direction, radius, colors, emojis, svgIcon}): *)
(* rnd holds the Math.random() results, id the new object's identity,          *)
(* innerWidth the window's width and time what Date.now() returns.             *)
Confetti(args, rnd, id, innerWidth, time) ==
    LET speedFactor == getRandomInRange(900, 1700, rnd.speed)
                         * getScaleFactor(innerWidth)
        angle == IF args.direction = "left"
                 THEN getRandomInRange(82, 15, rnd.angle)
                 ELSE getRandomInRange(-15, -82, rnd.angle)
        absCos == AbsCos(angle)
        absSin == AbsSin(angle)
        offset == getRandomInRange(-150, 0, rnd.offset)
        position ==
            [x |-> args.initialPosition.x
                     + (IF args.direction = "left" THEN -offset ELSE offset) * absCos,
             y |-> args.initialPosition.y - offset * absSin]
    IN  [id |-> id,
         speed |-> [x |-> speedFactor, y |-> speedFactor],
         finalSpeedX |-> getRandomInRange(200, 600, rnd.finalSpeed) * 1000,
         rotationSpeed |->
             IF HasGlyph(args.emojis, args.svgIcon)
             THEN 10000
             ELSE getRandomInRange(30, 70, rnd.rotation) * getScaleFactor(innerWidth),
         dragCoefficient |-> getRandomInRange(500, 900, rnd.drag),
         radius |-> [x |-> args.radius * 1000000, y |-> args.radius * 1000000],
         initialRadius |-> args.radius * 1000000,
         rotationAngle |->
             IF args.direction = "left"
             THEN getRandomInRange(0, 200, rnd.tilt)
             ELSE getRandomInRange(-200, 0, rnd.tilt),
         emojiRotationAngle |-> (rnd.spin * 6283) \div 1000000,
         radiusYDirection |-> "down",
         absCos |-> absCos,
         absSin |-> absSin,
         position |-> position,
         initialPosition |-> position,
         color |-> IF HasGlyph(args.emojis, args.svgIcon)
                   THEN Null
                   ELSE getRandomItem(args.colors, rnd.item),
         emoji |-> IF Len(args.emojis) > 0
                   THEN getRandomItem(args.emojis, rnd.item)
                   ELSE Null,
         svgIcon |-> Null,
         svgImage |-> IF Truthy(args.svgIcon) THEN "loading" ELSE Undefined,
         createdAt |-> time,
         direction |-> args.direction]

(* The branch Confetti.draw takes: what it paints. *)
Shape(p) ==
    IF Truthy(p.svgIcon) THEN "image"
    ELSE IF Truthy(p.color) THEN "ellipse"
    ELSE IF Truthy(p.emoji) THEN "text"
    ELSE "nothing"

(* Confetti.draw(context), with scale the window's devicePixelRatio: what    *)
(* the call paints, for which particle and where.                            *)
draw(p, scale) ==
    [id |-> p.id,
     shape |-> Shape(p),
     x |-> MulDiv(p.position.x, scale, 100),
     y |-> MulDiv(p.position.y, scale, 100)]

(* A drag that pulls speed.x toward finalSpeedX from both sides. *)
DragToward(p, deltaTime) ==
    IF p.speed.x > p.finalSpeedX
    THEN p.speed.x - p.dragCoefficient * deltaTime
    ELSE IF p.speed.x < p.finalSpeedX
         THEN p.speed.x + p.dragCoefficient * deltaTime
         ELSE p.speed.x

(* The drag step of updatePosition: speed.x after it. *)
Drag(p, deltaTime) ==
    IF p.speed.x > p.finalSpeedX
    THEN p.speed.x - p.dragCoefficient * deltaTime
    ELSE p.speed.x

(* A fall that starts from the current position, frame after frame. *)
FallFromPosition(p, elapsed) ==
    p.position.y
      - MulDiv(MulDiv(p.speed.y, p.absSin, 1000), elapsed, 1000)
      + (5 * elapsed * elapsed) \div 8

(* A fall formula without its gravity term. *)
FallWithoutGravity(p, elapsed) ==
    p.initialPosition.y - MulDiv(MulDiv(p.speed.y, p.absSin, 1000), elapsed, 1000)

(* The fall formula of updatePosition: position.y at age elapsed. *)
Fall(p, elapsed) ==
    p.initialPosition.y
      - MulDiv(MulDiv(p.speed.y, p.absSin, 1000), elapsed, 1000)
      + (5 * elapsed * elapsed) \div 8

(* A tumble that turns around at 0 and initialRadius without clamping. *)
TumbleWithoutClamp(p, deltaTime) ==
    LET rotationSpeed == Max(p.rotationSpeed - 10 * deltaTime, 0)
        down == p.radius.y - deltaTime * rotationSpeed
        up == p.radius.y + deltaTime * rotationSpeed
    IN  IF p.radiusYDirection = "down"
        THEN [rotationSpeed |-> rotationSpeed, y |-> down,
              radiusYDirection |-> IF down <= 0 THEN "up" ELSE "down"]
        ELSE [rotationSpeed |-> rotationSpeed, y |-> up,
              radiusYDirection |-> IF up >= p.initialRadius THEN "down" ELSE "up"]

(* The tumble step of updatePosition: [rotationSpeed, y, radiusYDirection]. *)
Tumble(p, deltaTime) ==
    LET rotationSpeed == Max(p.rotationSpeed - 10 * deltaTime, 0)
        down == p.radius.y - deltaTime * rotationSpeed
        up == p.radius.y + deltaTime * rotationSpeed
    IN  IF p.radiusYDirection = "down"
        THEN IF down <= 0
             THEN [rotationSpeed |-> rotationSpeed, y |-> 0, radiusYDirection |-> "up"]
             ELSE [rotationSpeed |-> rotationSpeed, y |-> down,
                   radiusYDirection |-> "down"]
        ELSE IF up >= p.initialRadius
             THEN [rotationSpeed |-> rotationSpeed, y |-> p.initialRadius,
                   radiusYDirection |-> "down"]
             ELSE [rotationSpeed |-> rotationSpeed, y |-> up, radiusYDirection |-> "up"]

(* An update whose drag slows speed.y as it slows speed.x. *)
updatePositionSlowingBoth(p, deltaTime, currentTime) ==
    LET elapsed == currentTime - p.createdAt
        speedX == Drag(p, deltaTime)
        stepX == MulDiv(MulDiv(speedX, p.absCos, 1000), deltaTime, 1000)
        moved == [p EXCEPT
                    !.speed = [x |-> speedX, y |-> speedX],
                    !.position.x = IF p.direction = "left" THEN @ - stepX ELSE @ + stepX,
                    !.position.y = Fall(p, elapsed)]
        t == Tumble(p, deltaTime)
    IN  IF Falsy(p.emoji) /\ Falsy(p.svgIcon)
        THEN [moved EXCEPT !.rotationSpeed = t.rotationSpeed,
                           !.radius.y = t.y,
                           !.radiusYDirection = t.radiusYDirection]
        ELSE moved

(* Confetti.updatePosition(deltaTime, currentTime): the particle after it. *)
updatePosition(p, deltaTime, currentTime) ==
    LET elapsed == currentTime - p.createdAt
        speedX == Drag(p, deltaTime)
        stepX == MulDiv(MulDiv(speedX, p.absCos, 1000), deltaTime, 1000)
        moved == [p EXCEPT
                    !.speed.x = speedX,
                    !.position.x = IF p.direction = "left" THEN @ - stepX ELSE @ + stepX,
                    !.position.y = Fall(p, elapsed)]
        t == Tumble(p, deltaTime)
    IN  IF Falsy(p.emoji) /\ Falsy(p.svgIcon)
        THEN [moved EXCEPT !.rotationSpeed = t.rotationSpeed,
                           !.radius.y = t.y,
                           !.radiusYDirection = t.radiusYDirection]
        ELSE moved

(* A visibility test without the margin of 100. *)
isVisibleWithoutMargin(p, canvasHeight) == p.position.y < canvasHeight * 1000

(* Confetti.isVisible(canvasHeight) *)
isVisible(p, canvasHeight) == p.position.y < (canvasHeight + 100) * 1000

---------------------------------------------------------------------------
(* class ConfettiManager *)

Ids(particles) == {particles[i].id : i \in DOMAIN particles}

(* The history record of an operation. *)
Op(name, n) == [op |-> name, n |-> n]

(* A spread in the other order: { ...config, ...defaultConfettiConfig } *)
DestructureDefaultsLast(config) == defaultConfettiConfig

(* { ...defaultConfettiConfig, ...config } *)
Destructure(config) ==
    [k \in DOMAIN defaultConfettiConfig |->
        IF k \in DOMAIN config THEN config[k] ELSE defaultConfettiConfig[k]]

(* The passes of a loop over an integer half: i < Math.floor(n / 2). *)
IterationsRoundedDown(confettiesNumber) ==
    IF confettiesNumber <= 0 THEN 0 ELSE confettiesNumber \div 2

(* The number of passes of for (let i = 0; i < confettiesNumber / 2; i++). *)
Iterations(confettiesNumber) ==
    IF confettiesNumber <= 0 THEN 0 ELSE (confettiesNumber + 1) \div 2

(* Launch points on the surface: the window's size times its ratio. *)
initialPositionOnSurface(direction, win) ==
    [x |-> IF direction = "right"
           THEN 0
           ELSE win.innerWidth * win.devicePixelRatio * 10,
     y |-> (5 * win.innerHeight * win.devicePixelRatio * 10) \div 7]

(* The initialPosition addConfetti passes to the constructor:                *)
(* { x: 0, y: baseY } for "right", { x: window.innerWidth, y: baseY } for    *)
(* "left", with baseY = (5 * window.innerHeight) / 7.                        *)
initialPosition(direction, win) ==
    [x |-> IF direction = "right" THEN 0 ELSE win.innerWidth * 1000,
     y |-> (5 * win.innerHeight * 1000) \div 7]

(* The Confetti objects one addConfetti(config) constructs, in the order it   *)
(* pushes them: pass i pushes a "right" one, then a "left" one. rnds[k] are   *)
(* the draws of the k-th.                                                     *)
NewConfetti(config, rnds, firstId, win, time) ==
    LET c == Destructure(config)
    IN  [k \in 1..(2 * Iterations(c.confettiesNumber)) |->
            Confetti([initialPosition |->
                          initialPosition(IF k % 2 = 1 THEN "right" ELSE "left", win),
                      direction |-> IF k % 2 = 1 THEN "right" ELSE "left",
                      radius |-> c.confettiRadius,
                      colors |-> c.confettiColors,
                      emojis |-> c.emojies,
                      svgIcon |-> c.svgIcon],
                     rnds[k], firstId + k - 1, win.innerWidth, time)]

(* A push that replaces the collection by the new particles. *)
PushReplacing(particles, new) == new

(* this.confetti.push(...) of every new particle *)
Push(particles, new) == particles \o new

(* A resetAndStart that forgets to clear. *)
ClearNothing(particles) == particles

(* this.confetti = [] of resetAndStart *)
Clear(particles) == <<>>

(* requestAnimationFrame(() => this.loop()): the callbacks held after it. *)
RequestAnimationFrame(pending) == pending + 1

(* A frame that asks for the next one only while particles are live. *)
RescheduleWhileLive(pending, particles) ==
    IF particles = <<>> THEN pending ELSE RequestAnimationFrame(pending)

(* A frame that registers two callbacks. *)
RescheduleTwice(pending, particles) ==
    RequestAnimationFrame(RequestAnimationFrame(pending))

(* The last statement of loop(): requestAnimationFrame(() => this.loop()). *)
Reschedule(pending, particles) == RequestAnimationFrame(pending)

(* An assignment of a dimension that rounds to the nearest integer. *)
ToNearest(value) == (value + 50) \div 100

(* canvas.width = value, canvas.height = value: the dimensions of a canvas *)
(* element are unsigned long, so the value assigned is truncated; value is  *)
(* in 1/100.                                                                *)
ToUnsignedLong(value) == value \div 100

(* resizeCanvas(): the dimensions of the canvas after it. *)
resizeCanvas(win) ==
    [width |-> ToUnsignedLong(win.innerWidth * win.devicePixelRatio),
     height |-> ToUnsignedLong(win.innerHeight * win.devicePixelRatio)]

(* Assigning canvas.width or canvas.height clears what is drawn on it. *)
ResetBitmap(painted) == <<>>

(* context.clearRect(0, 0, canvas.width, canvas.height) *)
clearRect(painted) == <<>>

(* Utils.debounce: clearTimeout(timeout) cancels the timer the closure's    *)
(* variable names, if it is still pending.                                  *)
clearTimeout(t) == [t EXCEPT !.timers = @ \ t.handle]

(* Utils.debounce: timeout = setTimeout(() => func(...args), delay); a timer *)
(* is named by the time it is due.                                           *)
setTimeout(t, time, delay) ==
    [handle |-> {time + delay}, timers |-> t.timers \cup {time + delay}]

(* The timers of the closure that are due. *)
Due(t, time) == {due \in t.timers : time >= due}

(* The burst configurations the model considers. *)
Styles ==
    { <<>>,
      [emojies |-> <<"E1", "E2">>],
      [svgIcon |-> "icon.svg"],
      [emojies |-> <<"E1", "E2">>, svgIcon |-> "icon.svg"],
      [confettiColors |-> <<>>] }

WithCount(style, n) ==
    [k \in DOMAIN style \cup {"confettiesNumber"} |->
        IF k = "confettiesNumber" THEN n ELSE style[k]]

Configs == {WithCount(style, n) : style \in Styles, n \in 0..MaxCount}

(* The draws of the constructions of one burst the model considers: every   *)
(* construction of the burst draws the same results.                        *)
RndsFor(config) ==
    { [k \in 1..(2 * Iterations(Destructure(config).confettiesNumber)) |-> rnd] :
        rnd \in RandomDraws }

(* The configurations that only set the count. *)
CountConfigs == {WithCount(<<>>, n) : n \in 0..MaxCount}

(* A burst of colors and a burst of emojis with an icon. *)
EventConfigs ==
    { WithCount(<<>>, 2),
      WithCount([emojies |-> <<"E1", "E2">>, svgIcon |-> "icon.svg"], 2) }

(* A burst of icons and a burst of emojis with an icon. *)
IconConfigs ==
    { WithCount([svgIcon |-> "icon.svg"], 2),
      WithCount([emojies |-> <<"E1", "E2">>, svgIcon |-> "icon.svg"], 2) }

(* The same, and addConfetti() or addConfetti({}): no field is set. *)
DefaultConfigs == CountConfigs \cup {<<>>}

(* The delay of the debounced resize listener, in ms. *)
SettleDelay == 200

(* A listener that sets a timer without cancelling the one before. *)
debounceWithoutClear(t, time, delay) == setTimeout(t, time, delay)

(* The listener Utils.debounce(func, delay) returns, called at time. *)
debounce(t, time, delay) == setTimeout(clearTimeout(t), time, delay)

(* new ConfettiManager(), at time 0 *)
Init ==
    /\ window = FirstViewport
    /\ canvas = resizeCanvas(window)
    /\ context = <<>>
    /\ confetti = <<>>
    /\ now = 0
    /\ lastUpdated = 0
    /\ rafPending = RequestAnimationFrame(0)
    /\ timeout = [handle |-> {}, timers |-> {}]
    /\ nextId = 0
    /\ images = {}
    /\ last = Op("constructor", 0)

(* The clock advances by d ms. A timer that is due fires before the clock   *)
(* advances again: a timer is late by less than one step of the clock.      *)
Tick(d, limit) ==
    /\ now + d <= limit
    /\ Due(timeout, now) = {}
    /\ now' = now + d
    /\ UNCHANGED <<confetti, lastUpdated, canvas, context, window, rafPending,
                   timeout, nextId, images, last>>

(* The images the constructors of new have started to load:                 *)
(* this.svgImage.src = svgIcon.                                             *)
Loading(new) == {new[k].id : k \in {j \in DOMAIN new : new[j].svgImage = "loading"}}

(* addConfetti(config) *)
addConfetti(config, rnds) ==
    LET new == NewConfetti(config, rnds, nextId, window, now)
    IN  /\ confetti' = Push(confetti, new)
        /\ nextId' = nextId + Len(new)
        /\ images' = images \cup Loading(new)
        /\ last' = Op("addConfetti", Destructure(config).confettiesNumber)
        /\ UNCHANGED <<lastUpdated, canvas, context, window, now, rafPending,
                       timeout>>

(* resetAndStart(config) *)
resetAndStart(config, rnds) ==
    LET new == NewConfetti(config, rnds, nextId, window, now)
    IN  /\ confetti' = Push(Clear(confetti), new)
        /\ nextId' = nextId + Len(new)
        /\ images' = images \cup Loading(new)
        /\ last' = Op("resetAndStart", Destructure(config).confettiesNumber)
        /\ UNCHANGED <<lastUpdated, canvas, context, window, now, rafPending,
                       timeout>>

(* The objects a burst of config constructs leave the number constructed    *)
(* within limit.                                                            *)
Room(config, limit) ==
    nextId + 2 * Iterations(Destructure(config).confettiesNumber) <= limit

(* A filter that tests each particle before it updates it. *)
FilterThenUpdate(particles, deltaTime, currentTime, canvasHeight) ==
    LET Keep(p) == isVisible(p, canvasHeight)
        kept == SelectSeq(particles, Keep)
    IN  [i \in DOMAIN kept |-> updatePosition(kept[i], deltaTime, currentTime)]

(* A draw that advances the spin of the particle it paints. *)
afterDrawSpinning(p) ==
    [p EXCEPT !.emojiRotationAngle = IF Shape(p) = "nothing" THEN @ ELSE @ + 1]

(* The particle after its draw(context) call: the call reads position,      *)
(* radius, svgIcon, color, emoji, rotationAngle and emojiRotationAngle of   *)
(* this and assigns to the context alone.                                   *)
afterDraw(p) == p

(* The particle after its isVisible(canvasHeight) call: the call reads      *)
(* position.y and returns the comparison.                                   *)
afterIsVisible(p) == p

(* A filter that returns the particles it keeps newest first. *)
FilterNewestFirst(particles, deltaTime, currentTime, canvasHeight) ==
    LET updated == [i \in DOMAIN particles |->
                       updatePosition(particles[i], deltaTime, currentTime)]
        Keep(p) == isVisible(p, canvasHeight)
        kept == SelectSeq(updated, Keep)
    IN  [i \in DOMAIN kept |-> kept[Len(kept) + 1 - i]]

(* The particles loop() keeps: each updated, drawn, then tested. *)
Filter(particles, deltaTime, currentTime, canvasHeight) ==
    LET updated == [i \in DOMAIN particles |->
                       afterDraw(updatePosition(particles[i], deltaTime,
                                                currentTime))]
        Keep(p) == isVisible(p, canvasHeight)
        kept == SelectSeq(updated, Keep)
    IN  [i \in DOMAIN kept |-> afterIsVisible(kept[i])]

(* The canvas after the draw calls of the particles, in their order: a call *)
(* that takes no branch of draw leaves nothing on it.                       *)
DrawAll(particles, painted, scale) ==
    painted \o SelectSeq([i \in DOMAIN particles |-> draw(particles[i], scale)],
                         LAMBDA entry : entry.shape # "nothing")

(* Draw calls that run before the updates. *)
PaintedBeforeUpdate(particles, deltaTime, currentTime, painted, scale) ==
    DrawAll(particles, painted, scale)

(* The canvas after the draw calls of loop(): each particle of the          *)
(* collection is drawn after its update, whatever its visibility test says. *)
Painted(particles, deltaTime, currentTime, painted, scale) ==
    DrawAll([i \in DOMAIN particles |->
                updatePosition(particles[i], deltaTime, currentTime)],
            painted, scale)

(* loop(): one frame, run from a requestAnimationFrame callback *)
loop ==
    LET currentTime == now
        deltaTime == currentTime - lastUpdated
        kept == Filter(confetti, deltaTime, currentTime, canvas.height)
    IN  /\ rafPending > 0
        /\ lastUpdated' = currentTime
        /\ context' = Painted(confetti, deltaTime, currentTime,
                              clearRect(context), window.devicePixelRatio)
        /\ confetti' = kept
        /\ rafPending' = Reschedule(rafPending - 1, kept)
        /\ last' = Op("loop", Len(confetti) - Len(kept))
        /\ UNCHANGED <<canvas, window, now, nextId, images>>
        /\ UNCHANGED timeout

(* A "resize" event: the window has become v; the debounced listener        *)
(* clears its timer and sets a new one, SettleDelay from now.               *)
ResizeEvent(v) ==
    /\ v # window
    /\ window' = v
    /\ timeout' = debounce(timeout, now, SettleDelay)
    /\ last' = Op("resize", now)
    /\ UNCHANGED <<confetti, lastUpdated, canvas, context, now, rafPending,
                   nextId, images>>

(* A timer of the debounce closure fires: () => this.resizeCanvas(). The    *)
(* closure's variable keeps naming the timer that fired; clearTimeout of a  *)
(* timer that has fired does nothing, so the model forgets the name.        *)
DebouncedResize ==
    \E due \in Due(timeout, now) :
        /\ canvas' = resizeCanvas(window)
        /\ context' = ResetBitmap(context)
        /\ timeout' = [handle |-> timeout.handle \ {due},
                       timers |-> timeout.timers \ {due}]
        /\ last' = Op("resizeCanvas", 0)
        /\ UNCHANGED <<confetti, lastUpdated, window, now, rafPending, nextId,
                       images>>

(* A callback that also gives up the emoji of the particle. *)
onloadClearingEmoji(p) ==
    [p EXCEPT !.svgIcon = "image", !.svgImage = "loaded", !.emoji = Null]

(* The callback svgImage.onload of a particle: this.svgIcon = this.svgImage *)
onload(p) == [p EXCEPT !.svgIcon = "image", !.svgImage = "loaded"]

(* The load of the image id completes and its onload callback runs, on the  *)
(* particle that made the image, whether the collection still holds that    *)
(* particle or not. An image whose load fails stays pending for ever.       *)
OnLoad(id) ==
    /\ id \in images
    /\ images' = images \ {id}
    /\ confetti' = [i \in DOMAIN confetti |->
                       IF confetti[i].id = id THEN onload(confetti[i]) ELSE confetti[i]]
    /\ last' = Op("onload", 0)
    /\ UNCHANGED <<lastUpdated, canvas, context, window, now, rafPending, timeout,
                   nextId>>

Next ==
    \/ \E d \in DeltaTimes : Tick(d, MaxTime)
    \/ \E config \in CountConfigs : \E rnds \in RndsFor(config) :
          Room(config, MaxIds) /\ addConfetti(config, rnds)
    \/ \E config \in CountConfigs : \E rnds \in RndsFor(config) :
          Room(config, MaxIds) /\ resetAndStart(config, rnds)
    \/ loop
    \/ \E v \in Viewports : ResizeEvent(v)
    \/ DebouncedResize

Spec == Init /\ [][Next]_vars

(* Frame by frame: bursts of one pair and short frames. *)
FrameNext ==
    \/ \E d \in FrameTimes : Tick(d, FrameMaxTime)
    \/ \E rnds \in RndsFor(WithCount(<<>>, 2)) :
          Room(WithCount(<<>>, 2), MaxIds) /\ addConfetti(WithCount(<<>>, 2), rnds)
    \/ loop

FrameSpec == Init /\ [][FrameNext]_vars

(* Bursts only while the clock can still advance by FallHorizon after them; *)
(* frames keep being processed, the clock keeps advancing, timers fire.     *)
LiveNext ==
    \/ \E d \in DeltaTimes : Tick(d, MaxTime)
    \/ /\ now + FallHorizon <= MaxTime
       /\ \E config \in CountConfigs : \E rnds \in RndsFor(config) :
             Room(config, MaxIds) /\ addConfetti(config, rnds)
    \/ loop
    \/ \E v \in Viewports : ResizeEvent(v)
    \/ DebouncedResize

LiveSpec ==
    /\ Init
    /\ [][LiveNext]_vars
    /\ WF_vars(loop)
    /\ WF_vars(\E d \in DeltaTimes : Tick(d, MaxTime))
    /\ WF_vars(DebouncedResize)

(* Bursts of every style, whose icons load at any time after the burst, in   *)
(* short frames.                                                            *)
GlyphNext ==
    \/ \E d \in FrameTimes : Tick(d, GlyphMaxTime)
    \/ \E config \in Configs : \E rnds \in RndsFor(config) :
          Room(config, GlyphMaxIds) /\ addConfetti(config, rnds)
    \/ loop
    \/ \E id \in images : OnLoad(id)

GlyphSpec == Init /\ [][GlyphNext]_vars

(* Resize events less than SettleDelay apart, while the clock can still      *)
(* advance by SettleDelay after them, around one burst of a pair; the clock  *)
(* keeps advancing and timers fire.                                          *)
ResizeNext ==
    \/ \E d \in ResizeTimes : Tick(d, ResizeMaxTime)
    \/ /\ now + SettleDelay <= ResizeMaxTime
       /\ \E v \in ResizeViewports : ResizeEvent(v)
    \/ DebouncedResize
    \/ /\ nextId = 0
       /\ \E rnds \in RndsFor(WithCount(<<>>, 2)) : addConfetti(WithCount(<<>>, 2), rnds)
    \/ loop

ResizeSpec ==
    /\ Init
    /\ [][ResizeNext]_vars
    /\ WF_vars(\E d \in ResizeTimes : Tick(d, ResizeMaxTime))
    /\ WF_vars(DebouncedResize)

(* Resize events alone, for longer. *)
DebounceNext ==
    \/ \E d \in ResizeTimes : Tick(d, DebounceMaxTime)
    \/ /\ now + SettleDelay <= DebounceMaxTime
       /\ \E v \in ResizeViewports : ResizeEvent(v)
    \/ DebouncedResize

DebounceSpec ==
    /\ Init
    /\ [][DebounceNext]_vars
    /\ WF_vars(\E d \in ResizeTimes : Tick(d, DebounceMaxTime))
    /\ WF_vars(DebouncedResize)

(* The first burst, with no field of the configuration set or the count     *)
(* alone, in short frames.                                                  *)
DefaultsNext ==
    \/ \E d \in FrameTimes : Tick(d, FrameMaxTime)
    \/ /\ nextId = 0
       /\ \E config \in DefaultConfigs : \E rnds \in RndsFor(config) :
             Room(config, DefaultsMaxIds) /\ addConfetti(config, rnds)
    \/ loop

DefaultsSpec == Init /\ [][DefaultsNext]_vars

(* Every event of the life of a particle: its burst, frames, the load of    *)
(* its icon, resize events and the resizeCanvas calls they lead to.         *)
EventsNext ==
    \/ \E d \in ResizeTimes : Tick(d, ResizeMaxTime)
    \/ /\ nextId = 0
       /\ \E config \in EventConfigs : \E rnds \in RndsFor(config) :
             addConfetti(config, rnds)
    \/ loop
    \/ \E id \in images : OnLoad(id)
    \/ \E v \in Viewports : ResizeEvent(v)
    \/ DebouncedResize

EventsSpec == Init /\ [][EventsNext]_vars

(* Bursts of particles with an icon on the coarse clock, on which particles  *)
(* fall out of the surface; the load of an image completes at any time       *)
(* after its construction, or never.                                         *)
IconNext ==
    \/ \E d \in DeltaTimes : Tick(d, MaxTime)
    \/ \E config \in IconConfigs : \E rnds \in RndsFor(config) :
          Room(config, MaxIds) /\ addConfetti(config, rnds)
    \/ loop
    \/ \E id \in images : OnLoad(id)

IconSpec == Init /\ [][IconNext]_vars

---------------------------------------------------------------------------
(* Properties *)

(* The particles a step has appended behind those of the collection before. *)
Added == SubSeq(confetti', Len(confetti) + 1, Len(confetti'))

CountDirection(particles, direction) ==
    Cardinality({i \in DOMAIN particles : particles[i].direction = direction})

(* position.y is below the visibility bound of a surface of height h *)
WithinBound(p, h) == p.position.y < (h + 100) * 1000

SurfaceHeights == {resizeCanvas(v).height : v \in Viewports}

NoGlyph(p) == p.emoji = Null /\ p.svgImage = Undefined /\ p.svgIcon = Null

(* C1: addConfetti with an even count n appends exactly n new particles,     *)
(* n/2 of them "left" and n/2 "right", and leaves every particle that was     *)
(* live before in the collection, unchanged and in its place; this is the     *)
(* state right after the call, before any frame.                              *)
C1_EvenCountAppends ==
    [][\A config \in CountConfigs : \A rnds \in RndsFor(config) :
          (config.confettiesNumber % 2 = 0 /\ addConfetti(config, rnds)) =>
              /\ Len(confetti') = Len(confetti) + config.confettiesNumber
              /\ SubSeq(confetti', 1, Len(confetti)) = confetti
              /\ 2 * CountDirection(Added, "left") = config.confettiesNumber
              /\ 2 * CountDirection(Added, "right") = config.confettiesNumber
              /\ Ids(Added) \cap Ids(confetti) = {}]_vars

(* A burst of two has been appended behind two older particles. *)
C1_Witness ==
    /\ last = Op("addConfetti", 2)
    /\ Len(confetti) = 4
    /\ confetti[1].createdAt < confetti[3].createdAt
    /\ confetti[1].position # confetti[1].initialPosition

(* C2, as claimed: addConfetti with an odd count n creates floor(n/2) "left" *)
(* and floor(n/2) "right" particles, n - 1 in total.                         *)
C2_OddCountRoundsDown ==
    [][\A config \in CountConfigs : \A rnds \in RndsFor(config) :
          (config.confettiesNumber % 2 = 1 /\ addConfetti(config, rnds)) =>
              /\ Len(confetti') = Len(confetti) + config.confettiesNumber - 1
              /\ CountDirection(Added, "left") = config.confettiesNumber \div 2
              /\ CountDirection(Added, "right") = config.confettiesNumber \div 2]_vars

(* C2, amended: addConfetti with an odd count n rounds up per side: it       *)
(* creates (n+1)/2 "left" and (n+1)/2 "right" particles, n + 1 in total      *)
(* (count 1 adds 2 particles).                                               *)
C2_OddCountRoundsUp ==
    [][\A config \in CountConfigs : \A rnds \in RndsFor(config) :
          (config.confettiesNumber % 2 = 1 /\ addConfetti(config, rnds)) =>
              /\ Len(confetti') = Len(confetti) + config.confettiesNumber + 1
              /\ 2 * CountDirection(Added, "left") = config.confettiesNumber + 1
              /\ 2 * CountDirection(Added, "right") = config.confettiesNumber + 1]_vars

(* The first burst was one of count 1, and two particles are live. *)
C2_Witness ==
    /\ last = Op("addConfetti", 1)
    /\ nextId = 2
    /\ Len(confetti) = 2

(* C3: after resetAndStart(config) the collection holds exactly the          *)
(* particles addConfetti(config) creates on an empty collection: none of the *)
(* particles live before remains, and the size is that of a fresh burst.     *)
C3_ResetLeavesOnlyTheBurst ==
    [][\A config \in CountConfigs : \A rnds \in RndsFor(config) :
          resetAndStart(config, rnds) =>
              /\ confetti' = NewConfetti(config, rnds, nextId, window, now)
              /\ Ids(confetti') \cap Ids(confetti) = {}
              /\ Len(confetti') = 2 * Iterations(config.confettiesNumber)]_vars

(* A resetAndStart of two has replaced the two particles created before it, *)
(* at a time when no frame can have removed any.                            *)
C3_Witness ==
    /\ last = Op("resetAndStart", 2)
    /\ now = 0
    /\ nextId = 4
    /\ Ids(confetti) = {2, 3}

(* C4: isVisible(h) is false exactly when position.y >= h + 100; a frame     *)
(* keeps a particle if and only if its position.y after that frame's update  *)
(* is below canvas.height + 100, so a particle whose position.y has crossed  *)
(* the bound is gone after the frame that moved it there; and a particle     *)
(* that has left the collection never comes back.                            *)
C4_FrameKeepsExactlyTheVisible ==
    [][/\ loop =>
            \A i \in DOMAIN confetti :
                LET u == updatePosition(confetti[i], now - lastUpdated, now)
                IN  /\ \A h \in SurfaceHeights :
                           isVisible(u, h) <=> ~(u.position.y >= (h + 100) * 1000)
                    /\ WithinBound(u, canvas.height)
                           <=> \E j \in DOMAIN confetti' : confetti'[j] = u
       /\ \A id \in 0..(nextId - 1) :
            id \notin Ids(confetti) => id \notin Ids(confetti')]_vars

(* A frame has removed some particles and kept others. *)
C4_Witness ==
    /\ last.op = "loop"
    /\ last.n > 0
    /\ confetti # <<>>

(* C5: when frames keep being processed, the clock keeps advancing and no    *)
(* further burst is spawned, the live collection eventually is empty and     *)
(* stays empty.                                                              *)
C5_EventuallyEmptyForever == <>[](confetti = <<>>)

(* A frame has removed the last live particles. *)
C5_Witness ==
    /\ last.op = "loop"
    /\ last.n > 0
    /\ confetti = <<>>

(* C6: a particle without a glyph has 0 <= radius.y <= initialRadius after   *)
(* every updatePosition call.                                                *)
C6_RadiusWithinRange ==
    \A i \in DOMAIN confetti :
        NoGlyph(confetti[i]) =>
            /\ 0 <= confetti[i].radius.y
            /\ confetti[i].radius.y <= confetti[i].initialRadius

(* A particle without a glyph has turned around at 0 and is growing again. *)
C6_Witness ==
    /\ last.op = "loop"
    /\ \E i \in DOMAIN confetti :
          /\ NoGlyph(confetti[i])
          /\ confetti[i].radiusYDirection = "up"
          /\ 0 < confetti[i].radius.y
          /\ confetti[i].radius.y < confetti[i].initialRadius

(* C7: once speed.x <= finalSpeedX, every later updatePosition call leaves   *)
(* speed.x <= finalSpeedX.                                                   *)
C7_FloorIsKept ==
    [][loop =>
          \A i \in DOMAIN confetti :
              LET u == updatePosition(confetti[i], now - lastUpdated, now)
              IN  confetti[i].speed.x <= confetti[i].finalSpeedX =>
                      u.speed.x <= u.finalSpeedX]_vars

(* A frame has left a live particle with speed.x at or below finalSpeedX. *)
C7_Witness ==
    /\ last.op = "loop"
    /\ \E i \in DOMAIN confetti :
          /\ confetti[i].speed.x <= confetti[i].finalSpeedX
          /\ confetti[i].createdAt < lastUpdated

(* C8, as claimed: speed.x >= finalSpeedX after every updatePosition call. *)
C8_NeverBelowFloor ==
    \A i \in DOMAIN confetti : confetti[i].speed.x >= confetti[i].finalSpeedX

(* C9, as claimed: in every reachable state every live particle has          *)
(* position.y < canvas.height + 100.                                         *)
C9_AlwaysWithinBound ==
    \A i \in DOMAIN confetti : WithinBound(confetti[i], canvas.height)

(* C9, amended: right after a frame, and until the next burst, resize or     *)
(* image load, every live particle has position.y < canvas.height + 100.     *)
C9_WithinBoundAfterFrame ==
    last.op = "loop" => \A i \in DOMAIN confetti : WithinBound(confetti[i], canvas.height)

(* A frame on a resized surface has kept particles. *)
C9_Witness ==
    /\ last.op = "loop"
    /\ confetti # <<>>
    /\ canvas # resizeCanvas(FirstViewport)

(* C10: every loop() ends by scheduling exactly one next loop(), also when   *)
(* the collection is empty, so a next frame is always pending.               *)
C10_LoopAlwaysReschedules ==
    /\ [](rafPending > 0)
    /\ [][loop => rafPending' = rafPending]_vars

(* A frame has run on an empty collection, and the next one is pending. *)
C10_Witness ==
    /\ last.op = "loop"
    /\ confetti = <<>>
    /\ nextId = 0
    /\ rafPending = 1

(* A field holds a value: it is neither null nor undefined. *)
Holds(v) == v \notin {Null, Undefined}

(* C11, as claimed: in every state, of color, emoji and the ready icon image *)
(* (svgIcon) of a particle at most one holds a value; a particle created     *)
(* with emojis and an icon never holds an emoji and a ready icon together.   *)
C11_IdentityIsExclusive ==
    \A i \in DOMAIN confetti :
        /\ ~(Holds(confetti[i].color) /\ Holds(confetti[i].emoji))
        /\ ~(Holds(confetti[i].color) /\ Holds(confetti[i].svgIcon))
        /\ ~(Holds(confetti[i].emoji) /\ Holds(confetti[i].svgIcon))

(* What is drawn on the canvas for the particle id. *)
DrawnOf(painted, id) ==
    SelectSeq(painted, LAMBDA entry : entry.id = id)

(* The particle was created with an icon. *)
HasIcon(p) == p.svgImage # Undefined

(* C12, as claimed: for a particle created with an icon, with or without an  *)
(* emoji set, a frame that runs before the image has loaded draws nothing    *)
(* for it, and a frame that runs after the load draws the icon image.        *)
C12_NothingUntilLoaded ==
    [][loop =>
          \A i \in DOMAIN confetti :
              HasIcon(confetti[i]) =>
                  IF confetti[i].svgIcon = Null
                  THEN DrawnOf(context', confetti[i].id) = <<>>
                  ELSE /\ Len(DrawnOf(context', confetti[i].id)) = 1
                       /\ DrawnOf(context', confetti[i].id)[1].shape = "image"]_vars

(* The particle was created with a non-empty emoji set or with an icon. *)
HasGlyphIdentity(p) == p.emoji # Null \/ HasIcon(p)

(* C13, as claimed: a particle created with a non-empty emoji set or with an *)
(* icon has radius.y = initialRadius, radiusYDirection = "down" and          *)
(* rotationSpeed = 0.01 after every updatePosition call, from its creation   *)
(* on, also in the frames before its icon has loaded.                        *)
C13_GlyphNeverTumbles ==
    \A i \in DOMAIN confetti :
        HasGlyphIdentity(confetti[i]) =>
            /\ confetti[i].radius.y = confetti[i].initialRadius
            /\ confetti[i].radiusYDirection = "down"
            /\ confetti[i].rotationSpeed = 10000

(* The dimensions c are the products of the window's size and its            *)
(* devicePixelRatio, exactly.                                                *)
IsProduct(c, win) ==
    /\ 100 * c.width = win.innerWidth * win.devicePixelRatio
    /\ 100 * c.height = win.innerHeight * win.devicePixelRatio

(* The dimensions c are the integer parts of the products. *)
IsIntegerPart(c, win) ==
    /\ 100 * c.width <= win.innerWidth * win.devicePixelRatio
    /\ win.innerWidth * win.devicePixelRatio < 100 * (c.width + 1)
    /\ 100 * c.height <= win.innerHeight * win.devicePixelRatio
    /\ win.innerHeight * win.devicePixelRatio < 100 * (c.height + 1)

(* C14, as claimed: after resizeCanvas with viewport (w, h) and ratio dpr   *)
(* the dimensions read back are exactly (w * dpr, h * dpr); a second call    *)
(* with the same viewport and ratio leaves them as they are; the call        *)
(* leaves the collection, every particle and lastUpdated unchanged.          *)
C14_DimensionsAreTheProduct ==
    [][DebouncedResize =>
          /\ IsProduct(canvas', window)
          /\ IsProduct(canvas, window) => canvas' = canvas
          /\ confetti' = confetti
          /\ lastUpdated' = lastUpdated]_vars

(* C14, amended: the dimensions read back are the integer parts of w * dpr  *)
(* and h * dpr (the products themselves when these are whole numbers); a     *)
(* second call with the same viewport and ratio leaves the dimensions as     *)
(* they are; the call leaves the collection, every particle and lastUpdated  *)
(* unchanged, and clears what is drawn on the canvas.                        *)
C14_DimensionsAreTheIntegerPart ==
    [][DebouncedResize =>
          /\ IsIntegerPart(canvas', window)
          /\ IsProduct(canvas', window)
                <=> /\ (window.innerWidth * window.devicePixelRatio) % 100 = 0
                    /\ (window.innerHeight * window.devicePixelRatio) % 100 = 0
          /\ IsIntegerPart(canvas, window) => canvas' = canvas
          /\ confetti' = confetti
          /\ lastUpdated' = lastUpdated
          /\ context' = <<>>]_vars

(* resizeCanvas has run in a window of 961 x 141 at ratio 1.5, over drawn,  *)
(* live particles: the canvas is 1441 x 211.                                *)
C14_Witness ==
    /\ last.op = "resizeCanvas"
    /\ window.devicePixelRatio = 150
    /\ canvas = [width |-> 1441, height |-> 211]
    /\ confetti # <<>>
    /\ \E i \in DOMAIN confetti : confetti[i].position # confetti[i].initialPosition

(* C15: resizeCanvas runs from the resize listener only once SettleDelay     *)
(* (200 ms) has passed since the most recent resize event; the call leaves   *)
(* no timer pending, so resize events each less than 200 ms after the one    *)
(* before cause one call; at most one timer is pending at any time; and      *)
(* once a timer is pending, resizeCanvas is eventually called.               *)
C15_ResizeIsDebounced ==
    /\ [](Cardinality(timeout.timers) <= 1)
    /\ [][DebouncedResize =>
             /\ last.op = "resize"
             /\ now >= last.n + 200
             /\ timeout'.timers = {}]_vars
    /\ (timeout.timers # {}) ~> (last.op = "resizeCanvas" /\ timeout.timers = {})

(* Two resize events or more, then one resizeCanvas call: the window is the *)
(* first one again, and the clock leaves no time for a call between them.   *)
C15_Witness ==
    /\ last.op = "resizeCanvas"
    /\ window = FirstViewport
    /\ now = 300

(* The default palette, the default radius. *)
IsDefaultColor(color) ==
    color \in {"#fcf403", "#62fc03", "#f4fc03", "#03e7fc",
               "#03fca5", "#a503fc", "#fc03ad", "#fc03c2"}

HasDefaultLook(p) ==
    /\ p.radius = [x |-> 4000000, y |-> 4000000]
    /\ p.initialRadius = 4000000
    /\ IsDefaultColor(p.color)
    /\ p.emoji = Null
    /\ p.svgIcon = Null
    /\ p.svgImage = Undefined

(* C16: addConfetti() with no field set appends exactly 100 particles of     *)
(* radius 4, each with a color of the default palette of 8, no emoji and no  *)
(* icon; addConfetti({confettiesNumber: n}) uses the count given (n          *)
(* particles, n + 1 for an odd n) and still radius 4 and the default         *)
(* palette.                                                                  *)
C16_OmittedFieldsAreDefaults ==
    [][\A config \in DefaultConfigs : \A rnds \in RndsFor(config) :
          addConfetti(config, rnds) =>
              /\ \A k \in DOMAIN Added : HasDefaultLook(Added[k])
              /\ IF config = <<>>
                 THEN Len(Added) = 100
                 ELSE Len(Added) = config.confettiesNumber + (config.confettiesNumber % 2)]_vars

(* addConfetti() has appended 100 particles. *)
C16_Witness ==
    /\ last = Op("addConfetti", 100)
    /\ Len(confetti) = 100
    /\ nextId = 100
    /\ confetti[100].direction = "left"

(* The particle p, constructed with the draws rnd, was launched from point: *)
(* its initialPosition is point displaced by the spawn offset.               *)
LaunchedFrom(p, rnd, point) ==
    LET offset == getRandomInRange(-150, 0, rnd.offset)
    IN  /\ p.initialPosition.x =
              point.x + (IF p.direction = "left" THEN -offset ELSE offset) * p.absCos
        /\ p.initialPosition.y = point.y - offset * p.absSin

(* The particles a burst appends alternate "right", "left", and each is      *)
(* launched from the left or right edge of a surface width x height, at 5/7  *)
(* of its height.                                                            *)
LaunchedFromEdges(new, rnds, width, height) ==
    \A k \in DOMAIN new :
        /\ new[k].direction = (IF k % 2 = 1 THEN "right" ELSE "left")
        /\ LaunchedFrom(new[k], rnds[k],
                        [x |-> IF k % 2 = 1 THEN 0 ELSE width * 1000,
                         y |-> (5 * height * 1000) \div 7])

(* C17, as claimed: in every burst the particles are appended "right",       *)
(* "left", "right", "left", each right one launched from                     *)
(* (0, 5/7 x surfaceHeight) and each left one from                           *)
(* (surfaceWidth, 5/7 x surfaceHeight), the dimensions of the canvas.        *)
C17_LaunchedFromTheSurface ==
    [][\A config \in CountConfigs : \A rnds \in RndsFor(config) :
          addConfetti(config, rnds) =>
              LaunchedFromEdges(Added, rnds, canvas.width, canvas.height)]_vars

(* C17, amended: the launch points are those of the window at the time of    *)
(* the burst, (0, 5/7 x innerHeight) and (innerWidth, 5/7 x innerHeight), in *)
(* the units of position, which draw multiplies by the devicePixelRatio.     *)
C17_LaunchedFromTheWindow ==
    [][\A config \in CountConfigs : \A rnds \in RndsFor(config) :
          addConfetti(config, rnds) =>
              LaunchedFromEdges(Added, rnds, window.innerWidth, window.innerHeight)]_vars

(* A burst of two in the window of 960 x 140 at ratio 2, whose canvas is     *)
(* 1920 x 280: the left particle starts near x = 960.                        *)
C17_Witness ==
    /\ last = Op("addConfetti", 2)
    /\ window.devicePixelRatio = 200
    /\ canvas = [width |-> 1920, height |-> 280]
    /\ confetti[Len(confetti)].direction = "left"
    /\ confetti[Len(confetti)].createdAt = now
    /\ confetti[Len(confetti)].initialPosition.x < 1200000

(* C18: a frame takes deltaTime = now - lastUpdated and sets lastUpdated to  *)
(* now; it clears the surface before it draws, so the surface then holds     *)
(* the drawings of this frame alone; every particle of the collection, in    *)
(* the order of the collection, is updated, then drawn where the update put  *)
(* it, then tested; a particle that fails the test has been updated and      *)
(* drawn once in this frame, and is gone after it.                           *)
C18_FrameOrder ==
    [][loop =>
          LET updated == [i \in DOMAIN confetti |->
                             updatePosition(confetti[i], now - lastUpdated, now)]
          IN  /\ lastUpdated' = now
              /\ Len(context') = Len(confetti)
              /\ \A i \in DOMAIN confetti :
                     /\ context'[i].id = confetti[i].id
                     /\ context'[i].shape = "ellipse"
                     /\ 100 * context'[i].y <=
                            updated[i].position.y * window.devicePixelRatio
                     /\ updated[i].position.y * window.devicePixelRatio <
                            100 * (context'[i].y + 1)
                     /\ \/ /\ updated[i].position.y < (canvas.height + 100) * 1000
                           /\ \E j \in DOMAIN confetti' : confetti'[j] = updated[i]
                        \/ /\ updated[i].position.y >= (canvas.height + 100) * 1000
                           /\ confetti[i].id \notin Ids(confetti')
              /\ \A j, k \in DOMAIN confetti' :
                     j < k => \E a, b \in DOMAIN confetti :
                                 /\ a < b
                                 /\ confetti[a].id = confetti'[j].id
                                 /\ confetti[b].id = confetti'[k].id]_vars

(* A frame has drawn a particle that it moved and then removed, and another *)
(* that it kept.                                                            *)
C18_Witness ==
    /\ last.op = "loop"
    /\ lastUpdated = now
    /\ \E i, j \in DOMAIN context :
          /\ context[i].id \notin Ids(confetti)
          /\ context[j].id \in Ids(confetti)

(* The particle as its constructor left it, as far as its motion goes. *)
AsCreated(p) ==
    [p EXCEPT !.position = p.initialPosition, !.speed.x = p.speed.y]

(* The particle in the run where its only frame is the one at time, the     *)
(* time of the last frame of this run.                                      *)
InOneFrame(p, time) == updatePosition(AsCreated(p), time - p.createdAt, time)

(* C19: position.y depends on the age of the particle alone: whatever the    *)
(* number and the times of the frames of a run, after the frame at a given   *)
(* time position.y is what it is in the run of the same particle whose only  *)
(* frame is at that time.                                                    *)
C19_HeightDependsOnAgeAlone ==
    \A i \in DOMAIN confetti :
        confetti[i].createdAt <= lastUpdated =>
            confetti[i].position.y = InOneFrame(confetti[i], lastUpdated).position.y

(* A particle that has fallen, in a run with other frames than that one:    *)
(* position.y is that of the run with one frame, position.x is not.         *)
C19_Witness ==
    /\ last.op = "loop"
    /\ \E i \in DOMAIN confetti :
          /\ confetti[i].createdAt < lastUpdated
          /\ confetti[i].position.y = InOneFrame(confetti[i], lastUpdated).position.y
          /\ confetti[i].position.y # confetti[i].initialPosition.y
          /\ confetti[i].position.x # InOneFrame(confetti[i], lastUpdated).position.x

(* The fields of a particle that are fixed at its creation. *)
FixedFields(p) ==
    [direction |-> p.direction,
     absCos |-> p.absCos,
     absSin |-> p.absSin,
     initialPosition |-> p.initialPosition,
     speedY |-> p.speed.y,
     finalSpeedX |-> p.finalSpeedX,
     dragCoefficient |-> p.dragCoefficient,
     initialRadius |-> p.initialRadius,
     radiusX |-> p.radius.x,
     color |-> p.color,
     emoji |-> p.emoji,
     createdAt |-> p.createdAt]

(* C20: no step (a frame with its updatePosition, draw and isVisible calls,  *)
(* a resize event, a resizeCanvas call, the load of an icon, a burst)        *)
(* changes direction, absCos, absSin, initialPosition, speed.y,              *)
(* finalSpeedX, dragCoefficient, initialRadius, radius.x, color, emoji or    *)
(* createdAt of a particle that is live before and after it; a new particle  *)
(* has speed.y = speed.x, radius.x = initialRadius and its initialPosition   *)
(* as position.                                                              *)
C20_FixedFieldsNeverChange ==
    [][/\ \A i \in DOMAIN confetti : \A j \in DOMAIN confetti' :
             confetti[i].id = confetti'[j].id =>
                 FixedFields(confetti[i]) = FixedFields(confetti'[j])
       /\ \A j \in DOMAIN confetti' :
             confetti'[j].id \notin Ids(confetti) =>
                 /\ confetti'[j].speed.y = confetti'[j].speed.x
                 /\ confetti'[j].radius.x = confetti'[j].initialRadius
                 /\ confetti'[j].initialPosition = confetti'[j].position
                 /\ confetti'[j].createdAt = now]_vars

(* A particle that has been through frames, the load of its icon and a      *)
(* resizeCanvas call.                                                       *)
C20_Witness ==
    /\ last.op = "resizeCanvas"
    /\ canvas # resizeCanvas(FirstViewport)
    /\ \E i \in DOMAIN confetti :
          /\ confetti[i].svgIcon # Null
          /\ confetti[i].emoji # Null
          /\ confetti[i].speed.x < confetti[i].speed.y
          /\ confetti[i].position # confetti[i].initialPosition

(* The state of a particle that selects the branch of draw. *)
Identity(p) ==
    IF p.svgIcon # Null THEN "icon ready"
    ELSE IF p.svgImage = "loading" THEN "icon pending"
    ELSE IF p.emoji # Null THEN "emoji"
    ELSE "color"

(* C21: draw and isVisible change nothing of the simulation state, whatever  *)
(* the identity state of the particle (color, emoji, icon pending, icon      *)
(* ready): after a frame lastUpdated is the time of the frame, every         *)
(* particle of the collection is field for field what updatePosition made    *)
(* of a particle that was in it, and the collection holds exactly the        *)
(* updated particles above the removal bound.                                *)
C21_DrawAndTestAreReadOnly ==
    [][loop =>
          LET updated == [i \in DOMAIN confetti |->
                             updatePosition(confetti[i], now - lastUpdated, now)]
          IN  /\ lastUpdated' = now
              /\ \A j \in DOMAIN confetti' :
                    \E i \in DOMAIN updated : confetti'[j] = updated[i]
              /\ \A i \in DOMAIN updated :
                    (updated[i].position.y < (canvas.height + 100) * 1000)
                        <=> (\E j \in DOMAIN confetti' : confetti'[j] = updated[i])
              /\ Len(confetti') <= Len(confetti)]_vars

(* A frame has drawn and kept a particle whose icon is ready. *)
C21_Witness ==
    /\ last.op = "loop"
    /\ \E i \in DOMAIN confetti :
          /\ Identity(confetti[i]) = "icon ready"
          /\ Len(DrawnOf(context, confetti[i].id)) = 1
          /\ confetti[i].position # confetti[i].initialPosition

(* The particle of the collection with the given id, if it holds one. *)
Live(particles, id) == {particles[i] : i \in {j \in DOMAIN particles : particles[j].id = id}}

(* C22: the load of an icon completes between two frames, or never, or       *)
(* after its particle was removed. The callback sets the readiness of that   *)
(* one particle and changes nothing else: no particle is added, removed or   *)
(* moved. No step clears the readiness of a particle. A frame updates a      *)
(* particle whose icon has not loaded like any other, and removes it once    *)
(* position.y has reached the height of the surface plus 100.                *)
C22_LoadOnlySetsReadiness ==
    [][/\ last'.op = "onload" /\ images' # images =>
             /\ Len(confetti') = Len(confetti)
             /\ \A i \in DOMAIN confetti :
                   IF confetti[i].id \in images \ images'
                   THEN /\ confetti'[i].svgIcon # Null
                        /\ [confetti'[i] EXCEPT !.svgIcon = confetti[i].svgIcon,
                                                !.svgImage = confetti[i].svgImage]
                               = confetti[i]
                   ELSE confetti'[i] = confetti[i]
             /\ UNCHANGED <<lastUpdated, canvas, window, now, rafPending, nextId>>
       /\ \A i \in DOMAIN confetti : \A ready \in Live(confetti', confetti[i].id) :
             confetti[i].svgIcon # Null => ready.svgIcon = confetti[i].svgIcon
       /\ loop =>
             \A i \in DOMAIN confetti :
                 confetti[i].svgImage = "loading" =>
                     LET updated == updatePosition(confetti[i], now - lastUpdated, now)
                     IN  Live(confetti', confetti[i].id) =
                             IF updated.position.y >= (canvas.height + 100) * 1000
                             THEN {}
                             ELSE {updated}]_vars

(* A frame has removed a particle whose icon has not loaded, and has kept    *)
(* the other particles.                                                      *)
C22_Witness ==
    /\ last.op = "loop"
    /\ last.n > 0
    /\ confetti # <<>>
    /\ images \ Ids(confetti) # {}

(* C23: a particle made without emoji and without icon has a color of the    *)
(* default palette, also when the burst was given an empty list of colors.   *)
C23_EmptyPaletteFallsBack ==
    \A i \in DOMAIN confetti :
        confetti[i].emoji = Null /\ ~HasIcon(confetti[i]) =>
            IsDefaultColor(confetti[i].color)

(* The ids of the particles, in the order of the collection. *)
IdsInOrder(particles) == [i \in DOMAIN particles |-> particles[i].id]

(* C24: a frame adds no particle and reorders none: the collection after     *)
(* loop() holds particles that were in it before, in the order they had.     *)
(* A step that is not a burst (a frame, a resize event, a resizeCanvas       *)
(* call, the load of an icon, a step of the clock) never makes the           *)
(* collection longer.                                                        *)
C24_FramesOnlyRemove ==
    [][/\ loop =>
             IdsInOrder(confetti') =
                 SelectSeq(IdsInOrder(confetti), LAMBDA id : id \in Ids(confetti'))
       /\ nextId' = nextId =>
             /\ Len(confetti') <= Len(confetti)
             /\ Ids(confetti') \subseteq Ids(confetti)]_vars

(* A frame that kept the two particles of a burst, after a resizeCanvas      *)
(* call and the load of an icon.                                             *)
C24_Witness ==
    /\ last.op = "loop"
    /\ last.n = 0
    /\ canvas # resizeCanvas(FirstViewport)
    /\ IdsInOrder(confetti) = <<0, 1>>
    /\ confetti[1].svgIcon # Null
    /\ confetti[2].svgIcon = Null
    /\ confetti[2].position # confetti[2].initialPosition

(* C25: in every reachable state exactly one loop() callback is pending:     *)
(* never none, never two or more, whatever bursts, resets, resize events,    *)
(* resizeCanvas calls and frames came before.                                *)
C25_OneCallbackPending == rafPending = 1

(* A reset after frames, an earlier burst and a resizeCanvas call. *)
C25_Witness ==
    /\ last.op = "resetAndStart"
    /\ lastUpdated > 0
    /\ canvas # resizeCanvas(FirstViewport)
    /\ nextId = MaxIds
    /\ Len(confetti) = 2
    /\ rafPending = 1

(* C26: the deltaTime a frame passes to updatePosition is at most the age    *)
(* of the particle it updates, currentTime - createdAt.                      *)
C26_DeltaTimeWithinAge ==
    [][loop =>
          \A i \in DOMAIN confetti :
              now - lastUpdated <= now - confetti[i].createdAt]_vars

(* C27: speed.x of a particle is never negative after an update, so an       *)
(* update moves a particle going left no further right, and a particle       *)
(* going right no further left.                                              *)
C27_SpeedNeverNegative ==
    [][\A i \in DOMAIN confetti : \A moved \in Live(confetti', confetti[i].id) :
          /\ moved.speed.x >= 0
          /\ moved.direction = "left" => moved.position.x <= confetti[i].position.x
          /\ moved.direction = "right" => moved.position.x >= confetti[i].position.x]_vars

====
